---- MODULE Spec2Model ----
(***************************************************************************)
(* The cfs Downloader (package cfs): LoadBucket, ExistsAll, Sync,          *)
(* FetchAll, Fetch and FetchTag over a remote content store and the local  *)
(* data cache.                                                             *)
(*                                                                         *)
(* The specifications share the variables:                                 *)
(*   SpecCalls  a caller makes up to MaxCalls sequential Fetch/LoadBucket  *)
(*              calls on a Downloader whose cache starts cold;             *)
(*   Spec       one bulk call (Sync, FetchAll or ExistsAll) on a bucket,   *)
(*              with its goroutines interleaved step by step;              *)
(*   SpecExists the ExistsAll call of Spec alone, with the fairness of the *)
(*              goroutine scheduler;                                       *)
(*   SpecPack   a pack file is written, parsed and filtered (package pack  *)
(*              and cmd/cfs/filter.go);                                    *)
(*   SpecFilter a bucket is filtered (cmd/cfs/filter.go).                  *)
(***************************************************************************)
EXTENDS Integers, Sequences, FiniteSets, TLC

(***************************************************************************)
(* Bounds of the model.                                                    *)
(***************************************************************************)
\* number of sequential calls the caller of SpecCalls makes
MaxCalls == 2
\* capacity of FetchAll's semaphore channel `limit` (8 in the source),
\* scaled so that the tasks of a bucket contend for it
LimitCap == 2
\* number of ExistsAll workers (32 in the source), scaled
NumWorkers == 2
\* capacity of ExistsAll's channel `ch` (32 in the source), scaled so that
\* a bucket can hold more entries than the channel
ChanCap == 1

(***************************************************************************)
(* Program constants.                                                      *)
(***************************************************************************)
RETRY_LIMIT == 3
\* length of an md5 hash in hexadecimal characters
HashLen == 32
\* byte added by the content transform of an encrypted entry
KeyByte == 7

(***************************************************************************)
(* Strings are sequences of one-character strings, byte strings are        *)
(* sequences of numbers 0..255.                                            *)
(***************************************************************************)
HexChars == {"0", "1", "2", "3", "4", "5", "6", "7", "8", "9",
             "a", "b", "c", "d", "e", "f"}

Rep(ch, n) == [i \in 1..n |-> ch]

\* two content hashes
H1 == Rep("a", HashLen)
H2 == Rep("b", HashLen)
Hashes == {H1, H2}

\* strings that are not hashes: a tag name, a hash in upper case, a hash
\* one character short, a hash followed by a newline
TagV1 == <<"v", "1">>
UpperHash == Rep("A", HashLen)
ShortHash == Rep("a", HashLen - 1)
HashLf == H1 \o <<"\n">>

\* isHash: exactly HashLen lower-case hexadecimal characters
isHash(s) == Len(s) = HashLen /\ \A i \in 1..Len(s) : s[i] \in HexChars

\* dataUrl: data/<hash[0:2]>/<hash[2:]> below the base url
dataUrl(hash) == <<"data", SubSeq(hash, 1, 2), SubSeq(hash, 3, Len(hash))>>
\* FetchTag's url: tag/<tag> below the base url
tagUrl(tag) == <<"tag", tag>>

Urls == {dataUrl(h) : h \in Hashes}

\* the blob the remote store holds at a data url (the raw bytes named by
\* the hash url[2] \o url[3])
RemoteData(url) ==
    IF url[2] \o url[3] = H1 THEN <<1, 2>> ELSE <<3>>

\* content attributes: the default (no transform) and an encrypted entry
AttrDefault == "default"
AttrCrypt == "crypt"
Attrs == {AttrDefault, AttrCrypt}
DefaultContentAttribute == AttrDefault

\* decode: the content transform of the raw bytes under an attribute
decode(data, attr) ==
    IF attr = AttrDefault THEN data
    ELSE [i \in 1..Len(data) |-> (data[i] + KeyByte) % 256]

\* Bucket.Parse: the blob named H1 is a well-formed manifest, no other is
Parse(body) == IF body = RemoteData(dataUrl(H1)) THEN "ok" ELSE "ParseError"

\* a file of the cache or of the target directory: absent, or its bytes
NoEntry == [present |-> FALSE, data |-> <<>>]
Entry(data) == [present |-> TRUE, data |-> data]
NoFile == NoEntry

None == "None"

\* results of Fetch: the bytes, or an error
Ok(bytes) == [ok |-> TRUE, bytes |-> bytes, err |-> None]
Err(e) == [ok |-> FALSE, bytes |-> <<>>, err |-> e]
\* no call of Fetch has returned yet
NotFetched == Err("none")

\* error values returned by the bulk calls and their tasks: nil, or the
\* error a Fetch made for the entry `by` returned; Pending before the return
Nil == [isErr |-> FALSE, kind |-> "nil", by |-> "-"]
Pending == [isErr |-> FALSE, kind |-> "pending", by |-> "-"]
ErrOf(kind, by) == [isErr |-> TRUE, kind |-> kind, by |-> by]

\* the paths of a bucket's entries; a bucket holds the first n of them
PathSeq == <<"a.txt", "b.bin", "c.dat">>
Paths == {PathSeq[i] : i \in 1..Len(PathSeq)}

VARIABLES
    cache,       \* the data cache directory: hash -> raw bytes, or NoEntry
    cache0,      \* the cache as the first call found it
    gets,        \* number of GET requests issued per data url
    tagGets,     \* number of GET requests issued for tag urls
    hist,        \* SpecCalls: the calls made so far, with their results
    op,          \* Spec: the bulk call in progress, or "idle"
    bucket,      \* Spec: b.Contents of the call, path -> Content
    mpc,         \* Spec: position of the calling goroutine
    ret,         \* Spec: the value the call returned, None before
    files,       \* Sync: the target directory, path -> bytes or NoFile
    todo,        \* Sync, ExistsAll: entries the range loop has not visited
    gotBy,       \* paths whose processing issued a GET
    failedAt,    \* Sync: the path whose processing returned the error
    tpc,         \* FetchAll: position of each task
    retryCount,  \* FetchAll: each task's retryCount
    limit,       \* FetchAll: number of tokens in the channel `limit`
    ctxDone,     \* FetchAll: whether ctx is cancelled
    gerr,        \* FetchAll: the error the errgroup holds, None if none
    tres,        \* FetchAll: what each task's function returned
    attempts,    \* FetchAll: number of Fetch calls each task made
    chk,         \* FetchAll: when each task made its ctx.Done() check
    failOrder,   \* FetchAll: tasks in the order they returned an error
    recOrder,    \* FetchAll: tasks in the order the errgroup took their error
    wroteBy,     \* FetchAll: tasks that wrote a cache entry
    tmp,         \* FetchAll: the temporary file of each task's atomic write
    fdata,       \* FetchAll: what each task's last Fetch returned
    ch,          \* ExistsAll: the channel `ch`
    closed,      \* ExistsAll: whether `ch` is closed
    wpc,         \* ExistsAll: position of each worker
    witem,       \* ExistsAll: the Content each worker holds
    wres,        \* ExistsAll: what the worker's HEAD request answered
    mutex,       \* ExistsAll: the set of workers holding `mutex`
    result,      \* ExistsAll: the result map, path -> BOOLEAN
    heads,       \* ExistsAll: the answer of the HEAD request per path
    pin,         \* SpecPack: the entries handed to NewPackFile
    pbin,        \* SpecPack: the byte stream Write produced
    ppak,        \* SpecPack: what Parse returned for the stream
    pfil,        \* SpecPack: what filterPackFile returned
    ppc,         \* SpecPack: position of the program
    fb,          \* SpecFilter: the bucket handed to filterBucket
    fb0,         \* SpecFilter: that bucket as it was before the call
    fout,        \* the list runFilter returned, with the command's name
    fnew,        \* SpecFilter: the bucket filterBucket returned
    fpc          \* SpecFilter: position of the program

packVars == <<pin, pbin, ppak, pfil, ppc>>
filterVars == <<fb, fb0, fout, fnew, fpc>>
\* the variables of SpecPack and SpecFilter, which no call of the Downloader
\* touches
toolVars == <<packVars, filterVars>>
callVars == <<hist, tagGets, toolVars>>
syncVars == <<files, failedAt>>
fetchAllVars == <<tpc, retryCount, limit, ctxDone, gerr, tres, attempts, chk,
                  failOrder, recOrder, wroteBy, tmp, fdata>>
existsVars == <<ch, closed, wpc, witem, wres, mutex, result, heads>>
vars == <<cache, cache0, gets, op, bucket, mpc, ret, todo, gotBy, callVars, syncVars,
          fetchAllVars, existsVars>>
\* the variables of the Downloader's calls
downloaderVars == <<cache, cache0, gets, hist, tagGets, op, bucket, mpc, ret, todo,
                    gotBy, syncVars, fetchAllVars, existsVars>>

\* no pack file and no bucket is being written, parsed or filtered
ToolsIdle ==
    /\ pin = <<>> /\ pbin = <<>> /\ ppak = None /\ pfil = None /\ ppc = "idle"
    /\ fb = None /\ fb0 = None /\ fout = None /\ fnew = None /\ fpc = "idle"

ColdCache == [h \in Hashes |-> NoEntry]

(***************************************************************************)
(* Fetch, lines 196-233, as the steps of one call.  `getOk` is whether the *)
(* GET answers with a status below 400, `writeOk` whether the atomic write *)
(* of the cache file succeeds.  The result is the cache after the call,    *)
(* the value returned and whether a GET was issued.                        *)
(***************************************************************************)
\* Fetch that returns the downloaded bytes without writing the cache file
FetchCallNoWrite(c, hash, attr, getOk, writeOk) ==
    IF ~isHash(hash)
    THEN [cache |-> c, res |-> Err("NotHash"), got |-> FALSE]
    ELSE IF c[hash].present
    THEN [cache |-> c, res |-> Ok(decode(c[hash].data, attr)), got |-> FALSE]
    ELSE IF ~getOk
    THEN [cache |-> c, res |-> Err("FetchError"), got |-> TRUE]
    ELSE [cache |-> c,
          res |-> Ok(decode(RemoteData(dataUrl(hash)), attr)),
          got |-> TRUE]

\* Fetch that caches what the remote store answered before it looks at the
\* status: a failed GET leaves an empty cache file
FetchCallCacheOnFail(c, hash, attr, getOk, writeOk) ==
    IF ~isHash(hash)
    THEN [cache |-> c, res |-> Err("NotHash"), got |-> FALSE]
    ELSE IF c[hash].present
    THEN [cache |-> c, res |-> Ok(decode(c[hash].data, attr)), got |-> FALSE]
    ELSE IF ~getOk
    THEN [cache |-> [c EXCEPT ![hash] = Entry(<<>>)], res |-> Err("FetchError"),
          got |-> TRUE]
    ELSE IF ~writeOk
    THEN [cache |-> c, res |-> Err("IOError"), got |-> TRUE]
    ELSE [cache |-> [c EXCEPT ![hash] = Entry(RemoteData(dataUrl(hash)))],
          res |-> Ok(decode(RemoteData(dataUrl(hash)), attr)),
          got |-> TRUE]

FetchCall(c, hash, attr, getOk, writeOk) ==
    IF ~isHash(hash)
    THEN [cache |-> c, res |-> Err("NotHash"), got |-> FALSE]
    ELSE IF c[hash].present
    THEN [cache |-> c, res |-> Ok(decode(c[hash].data, attr)), got |-> FALSE]
    ELSE IF ~getOk
    THEN [cache |-> c, res |-> Err("FetchError"), got |-> TRUE]
    ELSE IF ~writeOk
    THEN [cache |-> c, res |-> Err("IOError"), got |-> TRUE]
    ELSE [cache |-> [c EXCEPT ![hash] = Entry(RemoteData(dataUrl(hash)))],
          res |-> Ok(decode(RemoteData(dataUrl(hash)), attr)),
          got |-> TRUE]

Bump(g, hash, got) ==
    IF got THEN [g EXCEPT ![dataUrl(hash)] = @ + 1] ELSE g

(***************************************************************************)
(* LoadBucket, lines 35-65.  `tagOk` is whether the tag lookup answers     *)
(* with a status below 400 and `tagBody` its body.  `tags` counts the tag  *)
(* lookups made and `fetched` is the argument Fetch was called with (the   *)
(* empty string when it was not called).                                   *)
(***************************************************************************)
\* LoadBucket that resolves every location as a tag, hashes included
LoadBucketCallAlwaysTag(c, location, tagOk, tagBody, getOk, writeOk) ==
    LET f == FetchCall(c, tagBody, DefaultContentAttribute, getOk, writeOk)
    IN  IF ~tagOk
        THEN [cache |-> c, res |-> Err("FetchError"), got |-> FALSE,
              tags |-> 1, fetched |-> <<>>]
        ELSE IF ~isHash(tagBody)
        THEN [cache |-> c, res |-> Err("ResolutionError"), got |-> FALSE,
              tags |-> 1, fetched |-> <<>>]
        ELSE IF ~f.res.ok
        THEN [cache |-> f.cache, res |-> f.res, got |-> f.got,
              tags |-> 1, fetched |-> tagBody]
        ELSE IF Parse(f.res.bytes) # "ok"
        THEN [cache |-> f.cache, res |-> Err("ParseError"), got |-> f.got,
              tags |-> 1, fetched |-> tagBody]
        ELSE [cache |-> f.cache, res |-> Ok(f.res.bytes), got |-> f.got,
              tags |-> 1, fetched |-> tagBody]

LoadBucketCall(c, location, tagOk, tagBody, getOk, writeOk) ==
    LET lookup == ~isHash(location)
        loc == IF lookup THEN tagBody ELSE location
        f == FetchCall(c, loc, DefaultContentAttribute, getOk, writeOk)
        tags == IF lookup THEN 1 ELSE 0
    IN  IF lookup /\ ~tagOk
        THEN [cache |-> c, res |-> Err("FetchError"), got |-> FALSE,
              tags |-> tags, fetched |-> <<>>]
        ELSE IF lookup /\ ~isHash(loc)
        THEN [cache |-> c, res |-> Err("ResolutionError"), got |-> FALSE,
              tags |-> tags, fetched |-> <<>>]
        ELSE IF ~f.res.ok
        THEN [cache |-> f.cache, res |-> f.res, got |-> f.got,
              tags |-> tags, fetched |-> loc]
        ELSE IF Parse(f.res.bytes) # "ok"
        THEN [cache |-> f.cache, res |-> Err("ParseError"), got |-> f.got,
              tags |-> tags, fetched |-> loc]
        ELSE [cache |-> f.cache, res |-> Ok(f.res.bytes), got |-> f.got,
              tags |-> tags, fetched |-> loc]

\* what callers pass to Fetch and LoadBucket, and what a tag lookup answers
FetchArgs == Hashes \cup {TagV1}
Locations == Hashes \cup {TagV1, UpperHash}
TagBodies == Hashes \cup {HashLf, ShortHash}

bulkVars == <<cache0, op, bucket, mpc, ret, todo, gotBy, syncVars, fetchAllVars,
              existsVars, toolVars>>

\* the caller calls Fetch(hash, attr)
CallFetch ==
    /\ Len(hist) < MaxCalls
    /\ \E hash \in FetchArgs, attr \in Attrs, getOk \in BOOLEAN, writeOk \in BOOLEAN :
         LET f == FetchCall(cache, hash, attr, getOk, writeOk)
         IN  /\ cache' = f.cache
             /\ gets' = Bump(gets, hash, f.got)
             /\ hist' = Append(hist, [op |-> "Fetch", arg |-> hash, attr |-> attr,
                                      res |-> f.res, got |-> f.got, tags |-> 0,
                                      tagOk |-> FALSE, tagBody |-> <<>>,
                                      fetched |-> hash, before |-> cache,
                                      after |-> f.cache])
    /\ UNCHANGED <<tagGets, bulkVars>>

\* the caller calls LoadBucket(location)
CallLoadBucket ==
    /\ Len(hist) < MaxCalls
    /\ \E location \in Locations, tagOk \in BOOLEAN, tagBody \in TagBodies,
          getOk \in BOOLEAN, writeOk \in BOOLEAN :
         LET l == LoadBucketCall(cache, location, tagOk, tagBody, getOk, writeOk)
         IN  /\ cache' = l.cache
             /\ gets' = IF l.got THEN Bump(gets, l.fetched, TRUE) ELSE gets
             /\ tagGets' = tagGets + l.tags
             /\ hist' = Append(hist, [op |-> "LoadBucket", arg |-> location,
                                      attr |-> DefaultContentAttribute,
                                      res |-> l.res, got |-> l.got, tags |-> l.tags,
                                      tagOk |-> l.tags = 1 /\ tagOk,
                                      tagBody |-> IF l.tags = 1 /\ tagOk
                                                  THEN tagBody ELSE <<>>,
                                      fetched |-> l.fetched, before |-> cache,
                                      after |-> l.cache])
    /\ UNCHANGED bulkVars

EmptyFn == [x \in {} |-> x]

\* the bulk state before any bulk call
BulkIdle ==
    /\ op = "idle" /\ bucket = EmptyFn /\ mpc = "idle" /\ ret = Pending
    /\ todo = {} /\ gotBy = {}
    /\ files = [p \in Paths |-> NoFile] /\ failedAt = None
    /\ tpc = EmptyFn /\ retryCount = EmptyFn /\ limit = 0 /\ ctxDone = FALSE
    /\ gerr = Nil /\ tres = EmptyFn /\ attempts = EmptyFn /\ chk = EmptyFn
    /\ failOrder = <<>> /\ recOrder = <<>> /\ wroteBy = {}
    /\ tmp = EmptyFn /\ fdata = EmptyFn
    /\ ch = <<>> /\ closed = FALSE
    /\ wpc = EmptyFn /\ witem = EmptyFn /\ wres = EmptyFn
    /\ mutex = {} /\ result = EmptyFn /\ heads = EmptyFn

InitCalls ==
    /\ cache = ColdCache
    /\ cache0 = cache
    /\ gets = [u \in Urls |-> 0]
    /\ tagGets = 0
    /\ hist = <<>>
    /\ BulkIdle
    /\ ToolsIdle

NextCalls == CallFetch \/ CallLoadBucket

SpecCalls == InitCalls /\ [][NextCalls]_vars

(***************************************************************************)
(* Buckets.  A Content is {Path, Hash, Size, Attr}; the code reads Size    *)
(* only to tell an empty file (Size == 0) from the others.  The entries of *)
(* a bucket are drawn from Templates; as the range over b.Contents visits  *)
(* the paths in any order, the templates are assigned to the paths in      *)
(* non-decreasing order.                                                   *)
(***************************************************************************)
Templates == <<
    [Hash |-> H1, Size |-> 2, Attr |-> AttrDefault],
    [Hash |-> H1, Size |-> 2, Attr |-> AttrCrypt],
    [Hash |-> H1, Size |-> 0, Attr |-> AttrDefault],
    [Hash |-> H2, Size |-> 1, Attr |-> AttrDefault] >>

\* the manifest of the first n paths, entry i made from template f[i]
RECURSIVE BucketOf(_, _)
BucketOf(f, n) ==
    IF n = 0 THEN EmptyFn
    ELSE BucketOf(f, n - 1) @@
         (PathSeq[n] :> [Hash |-> Templates[f[n]].Hash,
                         Size |-> Templates[f[n]].Size,
                         Attr |-> Templates[f[n]].Attr,
                         Path |-> PathSeq[n]])

Buckets ==
    UNION {{BucketOf(f, n) :
               f \in {g \in [1..n -> 1..Len(Templates)] :
                          \A i \in 1..(n - 1) : g[i] <= g[i + 1]}} :
           n \in 0..Len(PathSeq)}

\* the caches a bulk call can find: cold, or holding the raw bytes of H1
\* that an earlier Fetch downloaded
InitCaches == {ColdCache, [ColdCache EXCEPT ![H1] = Entry(RemoteData(dataUrl(H1)))]}

Init ==
    /\ cache \in InitCaches
    /\ cache0 = cache
    /\ gets = [u \in Urls |-> 0]
    /\ tagGets = 0
    /\ hist = <<>>
    /\ BulkIdle
    /\ ToolsIdle

(***************************************************************************)
(* Sync, lines 111-138: one entry per step, in the order the range over    *)
(* the map yields them.  Sync is sequential, so the Fetch of an entry is   *)
(* one FetchCall.  `mkdirOk` and `fileOk` are whether os.MkdirAll and the  *)
(* atomic write of the target file succeed.                                *)
(***************************************************************************)
CallSync ==
    /\ mpc = "idle"
    /\ \E b \in Buckets :
         /\ bucket' = b
         /\ todo' = DOMAIN b
         /\ attempts' = [p \in DOMAIN b |-> 0]
    /\ op' = "Sync"
    /\ mpc' = "loop"
    /\ UNCHANGED <<cache, gets, ret, gotBy, callVars, syncVars, existsVars,
                   tpc, retryCount, limit, ctxDone, gerr, tres, chk,
                   failOrder, recOrder, wroteBy, tmp, fdata, cache0>>

\* Sync fetches every entry, the empty ones included
NeedsFetchAlways(c) == TRUE

\* if c.Size > 0: an empty file was never uploaded and is not fetched
NeedsFetch(c) == c.Size > 0

\* a Sync that does not look at the error of the file write
SyncErrIgnoreWrite(res, mkdirOk, fileOk) ==
    IF ~res.ok THEN res.err
    ELSE IF ~mkdirOk THEN "IOError"
    ELSE None

\* the error Sync returns for an entry, None to go on with the next: the
\* error of Fetch, of os.MkdirAll or of atomic.WriteFile, in this order
SyncErr(res, mkdirOk, fileOk) ==
    IF ~res.ok THEN res.err
    ELSE IF ~mkdirOk THEN "IOError"
    ELSE IF ~fileOk THEN "IOError"
    ELSE None

\* what Sync does with the entry at path p
SyncEntry(p, getOk, writeOk, mkdirOk, fileOk) ==
    LET c == bucket[p]
        f == IF NeedsFetch(c)
             THEN FetchCall(cache, c.Hash, c.Attr, getOk, writeOk)
             ELSE [cache |-> cache, res |-> Ok(<<>>), got |-> FALSE]
        err == SyncErr(f.res, mkdirOk, fileOk)
        written == f.res.ok /\ mkdirOk /\ fileOk
    IN  /\ cache' = f.cache
        /\ gets' = Bump(gets, c.Hash, f.got)
        /\ gotBy' = IF f.got THEN gotBy \cup {p} ELSE gotBy
        /\ attempts' = IF NeedsFetch(c) THEN [attempts EXCEPT ![p] = @ + 1]
                        ELSE attempts
        /\ files' = IF written THEN [files EXCEPT ![p] = Entry(f.res.bytes)]
                     ELSE files
        /\ IF err # None
           THEN /\ ret' = ErrOf(err, p)
                /\ failedAt' = p
                /\ mpc' = "returned"
                /\ UNCHANGED todo
           ELSE /\ todo' = todo \ {p}
                /\ UNCHANGED <<ret, failedAt, mpc>>

SyncStep ==
    /\ op = "Sync" /\ mpc = "loop"
    /\ \E p \in todo, getOk \in BOOLEAN, writeOk \in BOOLEAN,
          mkdirOk \in BOOLEAN, fileOk \in BOOLEAN :
         SyncEntry(p, getOk, writeOk, mkdirOk, fileOk)
    /\ UNCHANGED <<op, bucket, callVars, existsVars,
                   tpc, retryCount, limit, ctxDone, gerr, tres, chk,
                   failOrder, recOrder, wroteBy, tmp, fdata, cache0>>

SyncReturn ==
    /\ op = "Sync" /\ mpc = "loop" /\ todo = {}
    /\ ret' = Nil
    /\ mpc' = "returned"
    /\ UNCHANGED <<cache, cache0, gets, op, bucket, todo, gotBy, callVars,
                   syncVars, fetchAllVars, existsVars>>

(***************************************************************************)
(* FetchAll, lines 140-194.  eg.Go starts one goroutine per entry; the     *)
(* positions of a task are                                                 *)
(*   queued  before `limit <- struct{}{}`                                  *)
(*   check   holding a token, before the select on ctx.Done()              *)
(*   create  past the check, Size == 0, before os.Create                   *)
(*   fetch   at the top of the retry loop, before the call of Fetch        *)
(*   read    in Fetch, os.Stat found the cache file, before ReadFile       *)
(*   write   in Fetch, the GET answered, before the atomic write           *)
(*   rename  in the atomic write, the temporary file is written            *)
(*   failed  the function returned its error (the deferred `<-limit` has   *)
(*           run), the errgroup has not yet recorded it                    *)
(*   done    the goroutine is finished                                     *)
(***************************************************************************)
CallFetchAll ==
    /\ mpc = "idle"
    /\ \E b \in Buckets :
         /\ bucket' = b
         /\ tpc' = [p \in DOMAIN b |-> "queued"]
         /\ retryCount' = [p \in DOMAIN b |-> 0]
         /\ tres' = [p \in DOMAIN b |-> Pending]
         /\ attempts' = [p \in DOMAIN b |-> 0]
         /\ chk' = [p \in DOMAIN b |-> "none"]
         /\ tmp' = [p \in DOMAIN b |-> NoFile]
         /\ fdata' = [p \in DOMAIN b |-> NotFetched]
    /\ op' = "FetchAll"
    /\ mpc' = "wait"
    /\ UNCHANGED <<cache, cache0, gets, ret, todo, gotBy, callVars, syncVars,
                   existsVars, limit, ctxDone, gerr, failOrder, recOrder,
                   wroteBy>>

fetchAllFrame == <<cache0, op, bucket, mpc, ret, todo, recOrder, callVars,
                   syncVars, existsVars>>

\* a send on `limit` that never blocks
CanSendAlways(n) == TRUE

\* whether a send on `limit` goes through when the channel holds n tokens:
\* it blocks while the channel is full
CanSend(n) == n < LimitCap

\* limit <- struct{}{}
Acquire(t) ==
    /\ tpc[t] = "queued"
    /\ CanSend(limit)
    /\ limit' = limit + 1
    /\ tpc' = [tpc EXCEPT ![t] = "check"]
    /\ UNCHANGED <<cache, gets, gotBy, retryCount, ctxDone, gerr, tres,
                   attempts, chk, failOrder, wroteBy, tmp, fdata, fetchAllFrame>>

\* the function of task t returns r: the deferred `<-limit` runs; a nil
\* return ends the goroutine, an error is left for the errgroup to record
Return(t, r) ==
    /\ tres' = [tres EXCEPT ![t] = r]
    /\ limit' = limit - 1
    /\ tpc' = [tpc EXCEPT ![t] = IF r.isErr THEN "failed" ELSE "done"]
    /\ failOrder' = IF r.isErr THEN Append(failOrder, t) ELSE failOrder

\* a select that never takes the ctx.Done() case
CtxNeverDone == FALSE

\* case <-ctx.Done(): whether the select finds ctx cancelled
CtxIsDone == ctxDone

\* if c.Size == 0
IsEmptyFile(c) == c.Size = 0

\* select { case <-ctx.Done(): return nil; default: ... }
\* chk notes when the check was made: once ctx was cancelled, after some
\* task returned an error but before the cancellation, or earlier
Check(t) ==
    /\ tpc[t] = "check"
    /\ chk' = [chk EXCEPT ![t] = IF ctxDone THEN "cancelled"
                                 ELSE IF failOrder # <<>> THEN "afterFailure"
                                 ELSE "early"]
    /\ IF CtxIsDone
       THEN Return(t, Nil)
       ELSE /\ tpc' = [tpc EXCEPT ![t] =
                          IF IsEmptyFile(bucket[t]) THEN "create" ELSE "fetch"]
            /\ UNCHANGED <<tres, limit, failOrder>>
    /\ UNCHANGED <<cache, gets, gotBy, retryCount, ctxDone, gerr, attempts,
                   wroteBy, tmp, fdata, fetchAllFrame>>

\* os.Create(cache file of c.Hash): creates the file or truncates it
Create(t) ==
    /\ tpc[t] = "create"
    /\ cache' = [cache EXCEPT ![bucket[t].Hash] = Entry(<<>>)]
    /\ wroteBy' = wroteBy \cup {t}
    /\ Return(t, Nil)
    /\ UNCHANGED <<gets, gotBy, retryCount, ctxDone, gerr, attempts, chk,
                   tmp, fdata, fetchAllFrame>>

\* whether the retry loop calls Fetch again after a failure
CanRetryOffByOne(rc) == rc <= RETRY_LIMIT

CanRetry(rc) == rc < RETRY_LIMIT

\* Fetch returned the error `kind` to the retry loop of task t
FetchFailed(t, kind) ==
    IF CanRetry(retryCount[t])
    THEN /\ retryCount' = [retryCount EXCEPT ![t] = @ + 1]
         /\ tpc' = [tpc EXCEPT ![t] = "fetch"]
         /\ UNCHANGED <<tres, limit, failOrder>>
    ELSE /\ Return(t, ErrOf(kind, t))
         /\ UNCHANGED retryCount

\* the call of Fetch up to its first write: isHash, os.Stat of the cache
\* file and, when there is none, the GET
FetchStart(t) ==
    /\ tpc[t] = "fetch"
    /\ attempts' = [attempts EXCEPT ![t] = @ + 1]
    /\ LET hash == bucket[t].Hash
       IN  IF ~isHash(hash)
           THEN /\ FetchFailed(t, "NotHash")
                /\ UNCHANGED <<gets, gotBy>>
           ELSE IF cache[hash].present
           THEN /\ tpc' = [tpc EXCEPT ![t] = "read"]
                /\ UNCHANGED <<gets, gotBy, retryCount, tres, limit, failOrder>>
           ELSE /\ gets' = Bump(gets, hash, TRUE)
                /\ gotBy' = gotBy \cup {t}
                /\ \E getOk \in BOOLEAN :
                     IF getOk
                     THEN /\ tpc' = [tpc EXCEPT ![t] = "write"]
                          /\ UNCHANGED <<retryCount, tres, limit, failOrder>>
                     ELSE FetchFailed(t, "FetchError")
    /\ UNCHANGED <<cache, ctxDone, gerr, chk, wroteBy, tmp, fdata, fetchAllFrame>>

\* ioutil.ReadFile(cache) and decode: Fetch returns the bytes, the loop
\* breaks and the function returns nil
FetchRead(t) ==
    /\ tpc[t] = "read"
    /\ fdata' = [fdata EXCEPT ![t] =
                    Ok(decode(cache[bucket[t].Hash].data, bucket[t].Attr))]
    /\ Return(t, Nil)
    /\ UNCHANGED <<cache, gets, gotBy, retryCount, ctxDone, gerr, attempts,
                   chk, wroteBy, tmp, fetchAllFrame>>

\* a write that opens the cache file itself: while it is being written the
\* file holds the data short of its last byte
WriteInPlace(c, hash, data) ==
    [c EXCEPT ![hash] = Entry(SubSeq(data, 1, Len(data) - 1))]

\* the cache while atomic.WriteFile writes the data to its temporary file:
\* the file named by the hash is not touched
WriteTemp(c, hash, data) == c

\* atomic.WriteFile(cache, data), first part: the data goes to a temporary
\* file, or the write fails
FetchWrite(t) ==
    /\ tpc[t] = "write"
    /\ \E writeOk \in BOOLEAN :
         IF writeOk
         THEN /\ cache' = WriteTemp(cache, bucket[t].Hash,
                                    RemoteData(dataUrl(bucket[t].Hash)))
              /\ tmp' = [tmp EXCEPT ![t] =
                            Entry(RemoteData(dataUrl(bucket[t].Hash)))]
              /\ tpc' = [tpc EXCEPT ![t] = "rename"]
              /\ UNCHANGED <<retryCount, tres, limit, failOrder>>
         ELSE /\ FetchFailed(t, "IOError")
              /\ UNCHANGED <<cache, tmp>>
    /\ UNCHANGED <<gets, gotBy, ctxDone, gerr, attempts, chk, wroteBy, fdata,
                   fetchAllFrame>>

\* atomic.WriteFile, second part: the temporary file is renamed to the cache
\* file; Fetch returns decode of the data, the loop breaks and the function
\* returns nil
FetchRename(t) ==
    /\ tpc[t] = "rename"
    /\ cache' = [cache EXCEPT ![bucket[t].Hash] = tmp[t]]
    /\ tmp' = [tmp EXCEPT ![t] = NoFile]
    /\ wroteBy' = wroteBy \cup {t}
    /\ fdata' = [fdata EXCEPT ![t] = Ok(decode(tmp[t].data, bucket[t].Attr))]
    /\ Return(t, Nil)
    /\ UNCHANGED <<gets, gotBy, retryCount, ctxDone, gerr, attempts, chk,
                   fetchAllFrame>>

\* errOnce: the error the group keeps when it holds g and takes e
OnceLast(g, e) == e

Once(g, e) == IF g = Nil THEN e ELSE g

\* errgroup: errOnce.Do(func() { g.err = err; g.cancel() }) for the error
\* the function of task t returned
Record(t) ==
    /\ tpc[t] = "failed"
    /\ gerr' = Once(gerr, tres[t])
    /\ ctxDone' = TRUE
    /\ recOrder' = Append(recOrder, t)
    /\ tpc' = [tpc EXCEPT ![t] = "done"]
    /\ UNCHANGED <<cache, gets, gotBy, retryCount, limit, tres, attempts, chk,
                   failOrder, wroteBy, tmp, fdata, cache0, op, bucket, mpc, ret,
                   todo, callVars, syncVars, existsVars>>

\* an eg.Wait() that returns as soon as the group holds an error
WaitOverOnError == gerr # Nil \/ \A t \in DOMAIN bucket : tpc[t] = "done"

\* eg.Wait() returns once every goroutine started by eg.Go has finished
WaitOver == \A t \in DOMAIN bucket : tpc[t] = "done"

\* err := eg.Wait(); cancel(); return err
WaitReturn ==
    /\ op = "FetchAll" /\ mpc = "wait"
    /\ WaitOver
    /\ ret' = gerr
    /\ ctxDone' = TRUE
    /\ mpc' = "returned"
    /\ UNCHANGED <<cache, cache0, gets, op, bucket, todo, gotBy, callVars,
                   syncVars, existsVars, tpc, retryCount, limit, gerr, tres,
                   attempts, chk, failOrder, recOrder, wroteBy, tmp, fdata>>

FetchAllStep ==
    /\ op = "FetchAll"
    /\ \E t \in DOMAIN bucket :
         \/ Acquire(t)
         \/ Check(t)
         \/ Create(t)
         \/ FetchStart(t)
         \/ FetchRead(t)
         \/ FetchWrite(t)
         \/ FetchRename(t)
         \/ Record(t)

(***************************************************************************)
(* ExistsAll, lines 67-109.  The positions of a worker are                 *)
(*   recv    at `for c := range ch`                                        *)
(*   head    holding c, before headRequest                                 *)
(*   lock    the HEAD answered, before mutex.Lock()                        *)
(*   write   holding the mutex, before the write of result[c.Path]         *)
(*   unlock  before mutex.Unlock()                                         *)
(*   exit    the range ended, wg.Done() has run                            *)
(* and those of the caller: send (the range over b.Contents), wait         *)
(* (wg.Wait()) and returned.                                               *)
(***************************************************************************)
Workers == 1..NumWorkers

\* what a HEAD request answers: a status, or a transport error
HeadAnswers == {[err |-> FALSE, status |-> 200], [err |-> FALSE, status |-> 404],
                [err |-> TRUE, status |-> 0]}
NoAnswer == [err |-> TRUE, status |-> -1]

\* ExistsAll(b) for a bucket b of the set B
CallExistsAllOn(B) ==
    /\ mpc = "idle"
    /\ \E b \in B :
         /\ bucket' = b
         /\ todo' = DOMAIN b
    /\ op' = "ExistsAll"
    /\ mpc' = "send"
    /\ wpc' = [w \in Workers |-> "recv"]
    /\ witem' = [w \in Workers |-> None]
    /\ wres' = [w \in Workers |-> NoAnswer]
    /\ UNCHANGED <<cache, cache0, gets, ret, gotBy, callVars, syncVars,
                   fetchAllVars, ch, closed, mutex, result, heads>>

CallExistsAll == CallExistsAllOn(Buckets)

existsFrame == <<cache, cache0, gets, op, bucket, gotBy, callVars, syncVars,
                 fetchAllVars>>

\* ch <- c
Send ==
    /\ op = "ExistsAll" /\ mpc = "send"
    /\ Len(ch) < ChanCap
    /\ \E p \in todo :
         /\ ch' = Append(ch, p)
         /\ todo' = todo \ {p}
    /\ UNCHANGED <<mpc, ret, closed, wpc, witem, wres, mutex, result, heads,
                   existsFrame>>

\* close(ch)
Close ==
    /\ op = "ExistsAll" /\ mpc = "send" /\ todo = {}
    /\ closed' = TRUE
    /\ mpc' = "wait"
    /\ UNCHANGED <<ret, todo, ch, wpc, witem, wres, mutex, result, heads,
                   existsFrame>>

\* for c := range ch: the next Content, or the end of the range once the
\* channel is closed and drained
Recv(w) ==
    /\ wpc[w] = "recv"
    /\ IF ch # <<>>
       THEN /\ witem' = [witem EXCEPT ![w] = Head(ch)]
            /\ ch' = Tail(ch)
            /\ wpc' = [wpc EXCEPT ![w] = "head"]
       ELSE /\ closed
            /\ wpc' = [wpc EXCEPT ![w] = "exit"]
            /\ UNCHANGED <<witem, ch>>
    /\ UNCHANGED <<mpc, ret, todo, closed, wres, mutex, result, heads,
                   existsFrame>>

\* res, err := headRequest(transport, dataUrl(c.Hash))
HeadRequest(w) ==
    /\ wpc[w] = "head"
    /\ \E a \in HeadAnswers :
         /\ wres' = [wres EXCEPT ![w] = a]
         /\ heads' = [p \in DOMAIN heads \cup {witem[w]} |->
                         IF p = witem[w] THEN a ELSE heads[p]]
    /\ wpc' = [wpc EXCEPT ![w] = "lock"]
    /\ UNCHANGED <<mpc, ret, todo, ch, closed, witem, mutex, result,
                   existsFrame>>

\* a mutex.Lock() that never blocks
MutexFreeAlways(m) == TRUE

\* whether mutex.Lock() goes through when the workers m hold the mutex
MutexFree(m) == m = {}

\* mutex.Lock()
Lock(w) ==
    /\ wpc[w] = "lock"
    /\ MutexFree(mutex)
    /\ mutex' = {w}
    /\ wpc' = [wpc EXCEPT ![w] = "write"]
    /\ UNCHANGED <<mpc, ret, todo, ch, closed, witem, wres, result, heads,
                   existsFrame>>

\* the value recorded for an answer: false after an error, else
\* res.StatusCode == 200
ExistsAny(a) == ~a.err

Exists(a) == IF a.err THEN FALSE ELSE a.status = 200

\* result[c.Path] = ...
WriteResult(w) ==
    /\ wpc[w] = "write"
    /\ result' = [p \in DOMAIN result \cup {witem[w]} |->
                     IF p = witem[w] THEN Exists(wres[w]) ELSE result[p]]
    /\ wpc' = [wpc EXCEPT ![w] = "unlock"]
    /\ UNCHANGED <<mpc, ret, todo, ch, closed, witem, wres, mutex, heads,
                   existsFrame>>

\* a worker whose error path goes back to the range without mutex.Unlock()
UnlockNotOnError(w) ==
    /\ wpc[w] = "unlock"
    /\ mutex' = IF wres[w].err THEN mutex ELSE {}
    /\ wpc' = [wpc EXCEPT ![w] = "recv"]
    /\ witem' = [witem EXCEPT ![w] = None]
    /\ wres' = [wres EXCEPT ![w] = NoAnswer]
    /\ UNCHANGED <<mpc, ret, todo, ch, closed, result, heads, existsFrame>>

\* mutex.Unlock(), and back to the range: c and res go out of scope
Unlock(w) ==
    /\ wpc[w] = "unlock"
    /\ mutex' = {}
    /\ wpc' = [wpc EXCEPT ![w] = "recv"]
    /\ witem' = [witem EXCEPT ![w] = None]
    /\ wres' = [wres EXCEPT ![w] = NoAnswer]
    /\ UNCHANGED <<mpc, ret, todo, ch, closed, result, heads, existsFrame>>

\* wg.Wait(); return result, nil
ExistsReturn ==
    /\ op = "ExistsAll" /\ mpc = "wait"
    /\ \A w \in Workers : wpc[w] = "exit"
    /\ ret' = Nil
    /\ mpc' = "returned"
    /\ UNCHANGED <<todo, ch, closed, wpc, witem, wres, mutex, result, heads,
                   existsFrame>>

ExistsStep ==
    /\ op = "ExistsAll"
    /\ \E w \in Workers :
         \/ Recv(w)
         \/ HeadRequest(w)
         \/ Lock(w)
         \/ WriteResult(w)
         \/ Unlock(w)

\* the steps of the goroutine of worker w
WorkerStep(w) ==
    /\ op = "ExistsAll"
    /\ \/ Recv(w)
       \/ HeadRequest(w)
       \/ Lock(w)
       \/ WriteResult(w)
       \/ Unlock(w)

\* ExistsAll reads the Path and the Hash of an entry only: one bucket of
\* every size stands for the others
ExistsBuckets ==
    {BucketOf(SubSeq(<<1, 3, 4>>, 1, n), n) : n \in 0..Len(PathSeq)}

CallExistsAllSized == CallExistsAllOn(ExistsBuckets)

NextExists == CallExistsAllSized \/ Send \/ Close \/ ExistsStep \/ ExistsReturn

\* the scheduler lets every goroutine that can take a step take one: the
\* caller (Send, Close, ExistsReturn) and each worker; a HEAD request
\* completes or errors
ExistsFairness ==
    /\ WF_vars(Send) /\ WF_vars(Close) /\ WF_vars(ExistsReturn)
    /\ \A w \in Workers : WF_vars(WorkerStep(w))

\* ExistsAll does not look at the cache: the call starts from a cold one
SpecExists == InitCalls /\ [][NextExists]_vars /\ ExistsFairness

Next ==
    \/ CallSync \/ SyncStep \/ SyncReturn
    \/ CallFetchAll \/ FetchAllStep \/ WaitReturn
    \/ CallExistsAll \/ Send \/ Close \/ ExistsStep \/ ExistsReturn

Spec == Init /\ [][Next]_vars

(***************************************************************************)
(* Package pack: a PackFile is {Version, Entries}, an Entry is {Path,      *)
(* Hash, Pos, Size}.  Write puts the format version, the number of         *)
(* entries, and then for each entry the length of its path, the path, the  *)
(* hash, pos and size on the stream; Parse reads them back.  The stream is *)
(* a sequence of fields: a number (version, count, length, pos, size) or   *)
(* one character of a path or of a hash.                                   *)
(***************************************************************************)
\* largest number of entries of a pack file
MaxPackLen == 2

PackFileVersion == 1
\* a format version Parse does not know
OtherVersion == 2

\* paths of pack entries and of the buckets that are filtered: strings of
\* different lengths without a line terminator
PathA == <<"a">>
PathBc == <<"b", "c">>
PathD == <<"d">>
FilterPaths == {PathA, PathBc, PathD}

PackEntries ==
    [Path : {PathA, PathBc}, Hash : Hashes, Pos : {0, 1}, Size : {0, 1}]

RECURSIVE SeqsUpTo(_, _)
SeqsUpTo(S, n) ==
    IF n = 0 THEN {<<>>}
    ELSE LET shorter == SeqsUpTo(S, n - 1)
         IN  shorter \cup {Append(q, x) : q \in {r \in shorter : Len(r) = n - 1},
                                         x \in S}

NewPackFile(entries) == [Version |-> PackFileVersion, Entries |-> entries]

\* an entry on the stream with size written before pos
EncodeEntrySwapped(e) == <<Len(e.Path)>> \o e.Path \o e.Hash \o <<e.Size, e.Pos>>

\* an entry on the stream: path (length-prefixed), hash, pos, size
EncodeEntry(e) == <<Len(e.Path)>> \o e.Path \o e.Hash \o <<e.Pos, e.Size>>

RECURSIVE EncodeEntries(_)
EncodeEntries(es) ==
    IF es = <<>> THEN <<>> ELSE EncodeEntry(Head(es)) \o EncodeEntries(Tail(es))

\* pack.Write: the version marker, the entry count, the entries
Encode(pak) == <<pak.Version, Len(pak.Entries)>> \o EncodeEntries(pak.Entries)

FormatError == [ok |-> FALSE, pak |-> None]

\* the n entries that start at field i of the stream s, or ok = FALSE when
\* the stream ends before the last of them
RECURSIVE DecodeEntries(_, _, _)
DecodeEntries(s, i, n) ==
    IF n = 0 THEN [ok |-> TRUE, entries |-> <<>>]
    ELSE IF i > Len(s) THEN [ok |-> FALSE, entries |-> <<>>]
    ELSE LET l == s[i]
             last == i + l + HashLen + 2
         IN  IF last > Len(s) THEN [ok |-> FALSE, entries |-> <<>>]
             ELSE LET e == [Path |-> SubSeq(s, i + 1, i + l),
                            Hash |-> SubSeq(s, i + l + 1, i + l + HashLen),
                            Pos |-> s[last - 1],
                            Size |-> s[last]]
                      rest == DecodeEntries(s, last + 1, n - 1)
                  IN  IF rest.ok
                      THEN [ok |-> TRUE, entries |-> <<e>> \o rest.entries]
                      ELSE rest

\* pack.Parse: FormatError for an unknown version marker or a stream that
\* ends inside the header or an entry
Decode(s) ==
    IF Len(s) < 2 THEN FormatError
    ELSE IF s[1] # PackFileVersion THEN FormatError
    ELSE LET d == DecodeEntries(s, 3, s[2])
         IN  IF d.ok
             THEN [ok |-> TRUE,
                   pak |-> [Version |-> s[1], Entries |-> d.entries]]
             ELSE FormatError

\* the program makes a pack file of some entries
NewPack ==
    /\ ppc = "idle"
    /\ pin' \in SeqsUpTo(PackEntries, MaxPackLen)
    /\ ppc' = "new"
    /\ UNCHANGED <<pbin, ppak, pfil, fout, downloaderVars, fb, fb0, fnew, fpc>>

\* err := Write(w, NewPackFile(entries))
WritePack ==
    /\ ppc = "new"
    /\ pbin' = Encode(NewPackFile(pin))
    /\ ppc' = "written"
    /\ UNCHANGED <<pin, ppak, pfil, fout, downloaderVars, fb, fb0, fnew, fpc>>

\* the stream reaches the reader cut short, or it is a stream of another
\* format version
DamagePack ==
    /\ ppc = "written"
    /\ \/ \E n \in 0..(Len(pbin) - 1) : pbin' = SubSeq(pbin, 1, n)
       \/ pbin' = [pbin EXCEPT ![1] = OtherVersion]
    /\ ppc' = "damaged"
    /\ UNCHANGED <<pin, ppak, pfil, fout, downloaderVars, fb, fb0, fnew, fpc>>

\* pack, err := Parse(r)
ParsePack ==
    /\ ppc \in {"written", "damaged"}
    /\ ppak' = Decode(pbin)
    /\ ppc' = IF ppc = "written" THEN "parsed" ELSE "parsedDamaged"
    /\ UNCHANGED <<pin, pbin, pfil, fout, downloaderVars, fb, fb0, fnew, fpc>>

(***************************************************************************)
(* cmd/cfs/filter.go.  runFilter writes the paths, joined by "\n", to the  *)
(* filter command and splits what the command prints into lines.  A text   *)
(* is a sequence of characters.  The command is an external process: the   *)
(* commands below are the ones the model runs.                             *)
(***************************************************************************)
LF == "\n"
CR == "\r"

\* strings.Join(files, "\n")
RECURSIVE Join(_)
Join(names) ==
    IF names = <<>> THEN <<>>
    ELSE IF Len(names) = 1 THEN names[1]
    ELSE names[1] \o <<LF>> \o Join(Tail(names))

\* strings.TrimRight(out, "\n")
RECURSIVE TrimRight(_)
TrimRight(s) ==
    IF s # <<>> /\ s[Len(s)] = LF THEN TrimRight(SubSeq(s, 1, Len(s) - 1)) ELSE s

\* regexp "\r\n|\n\r|\n|\r", Split(s, -1): the pieces of s between the
\* matches, cur being the piece read so far
RECURSIVE Split(_, _)
Split(s, cur) ==
    IF s = <<>> THEN <<cur>>
    ELSE IF s[1] \in {LF, CR}
    THEN IF Len(s) >= 2 /\ s[2] \in {LF, CR} /\ s[2] # s[1]
         THEN <<cur>> \o Split(SubSeq(s, 3, Len(s)), <<>>)
         ELSE <<cur>> \o Split(Tail(s), <<>>)
    ELSE Split(Tail(s), Append(cur, s[1]))

\* every line followed by the terminator eol
RECURSIVE Lines(_, _)
Lines(ls, eol) ==
    IF ls = <<>> THEN <<>> ELSE Head(ls) \o eol \o Lines(Tail(ls), eol)

Reverse(q) == [i \in 1..Len(q) |-> q[Len(q) + 1 - i]]

IsNotPathA(l) == l # PathA

\* the filter commands: no command, and commands that print their input
\* unchanged, with a newline after every line, with CR LF line ends, its
\* first line, its lines in reverse order, nothing, a line and an empty
\* line more, its lines other than "a"; and a command that fails
FilterCmds == {"", "cat", "lines", "unix2dos", "head", "sort-r", "true",
               "more", "grep-v", "false"}

CmdOk(out) == [ok |-> TRUE, out |-> out]
CmdFailed == [ok |-> FALSE, out |-> <<>>]

\* runCommand: what the command prints for the input, or the error of a
\* command that exits with a failure
runCommand(cmdStr, input) ==
    LET ls == IF input = <<>> THEN <<>> ELSE Split(input, <<>>)
    IN  CASE cmdStr = "cat" -> CmdOk(input)
          [] cmdStr = "lines" -> CmdOk(Lines(ls, <<LF>>))
          [] cmdStr = "unix2dos" -> CmdOk(Lines(ls, <<CR, LF>>))
          [] cmdStr = "head" -> CmdOk(IF ls = <<>> THEN <<>> ELSE ls[1] \o <<LF>>)
          [] cmdStr = "sort-r" -> CmdOk(Lines(Reverse(ls), <<LF>>))
          [] cmdStr = "true" -> CmdOk(<<>>)
          [] cmdStr = "more" -> CmdOk(Lines(ls \o <<PathD, <<>>>>, <<LF>>))
          [] cmdStr = "grep-v" ->
                IF SelectSeq(ls, IsNotPathA) = <<>> THEN CmdFailed
                ELSE CmdOk(Lines(SelectSeq(ls, IsNotPathA), <<LF>>))
          [] OTHER -> CmdFailed

\* runFilter: the lines of the command's output, or its error
runFilter(cmdStr, names) ==
    LET r == runCommand(cmdStr, Join(names))
    IN  IF r.ok THEN [ok |-> TRUE, files |-> Split(TrimRight(r.out), <<>>)]
        ELSE [ok |-> FALSE, files |-> <<>>]

\* fileDict: the set of the lines runFilter returned
FileDict(names) == {names[i] : i \in 1..Len(names)}

\* the buckets that are filtered: Contents maps a path to its Content
FilterContents == {
    [Hash |-> H1, Size |-> 2, Attr |-> AttrDefault],
    [Hash |-> H2, Size |-> 0, Attr |-> AttrCrypt] }

ContentsOver(ps) ==
    {[p \in ps |-> [Path |-> p, Hash |-> f[p].Hash, Size |-> f[p].Size,
                    Attr |-> f[p].Attr]] : f \in [ps -> FilterContents]}

FilterBuckets ==
    {[HashType |-> "md5", Tag |-> t, Contents |-> c] :
        t \in {<<>>, TagV1},
        c \in UNION {ContentsOver(ps) : ps \in SUBSET FilterPaths}}

\* the orders in which a range over the map m can yield its entries
Orders(m) ==
    {q \in [1..Cardinality(DOMAIN m) -> DOMAIN m] :
        \A i, j \in 1..Cardinality(DOMAIN m) : q[i] = q[j] => i = j}

\* a filterBucket that removes the other entries from b.Contents itself
FilterBucketCallInPlace(cmd, b, order) ==
    LET names == [i \in 1..Len(order) |-> b.Contents[order[i]].Path]
        r == runFilter(cmd, names)
        kept == {p \in DOMAIN b.Contents :
                    b.Contents[p].Path \in FileDict(r.files)}
        nb == [b EXCEPT !.Contents = [p \in kept |-> b.Contents[p]]]
    IN  IF cmd = "" THEN [ok |-> TRUE, ret |-> b, orig |-> b, files |-> <<>>]
        ELSE IF ~r.ok
        THEN [ok |-> FALSE, ret |-> None, orig |-> b, files |-> <<>>]
        ELSE [ok |-> TRUE, ret |-> nb, orig |-> nb, files |-> r.files]

\* filterBucket(cmd, b), the range over b.Contents yielding the entries in
\* `order`: the bucket returned, the bucket b afterwards and the list
\* runFilter returned; ok = FALSE when check(err) ends the program
FilterBucketCall(cmd, b, order) ==
    LET names == [i \in 1..Len(order) |-> b.Contents[order[i]].Path]
        r == runFilter(cmd, names)
        kept == {p \in DOMAIN b.Contents :
                    b.Contents[p].Path \in FileDict(r.files)}
        newEntries == [p \in {b.Contents[q].Path : q \in kept} |->
                          b.Contents[CHOOSE q \in kept : b.Contents[q].Path = p]]
    IN  IF cmd = "" THEN [ok |-> TRUE, ret |-> b, orig |-> b, files |-> <<>>]
        ELSE IF ~r.ok
        THEN [ok |-> FALSE, ret |-> None, orig |-> b, files |-> <<>>]
        ELSE [ok |-> TRUE,
              ret |-> [HashType |-> "md5", Tag |-> b.Tag,
                       Contents |-> newEntries],
              orig |-> b, files |-> r.files]

\* a filterPackFile that leaves the Version of its result unset
FilterPackFileCallNoVersion(cmd, pak) ==
    LET names == [i \in 1..Len(pak.Entries) |-> pak.Entries[i].Path]
        r == runFilter(cmd, names)
        Kept(e) == e.Path \in FileDict(r.files)
    IN  IF cmd = "" THEN [ok |-> TRUE, ret |-> pak, files |-> <<>>]
        ELSE IF ~r.ok THEN [ok |-> FALSE, ret |-> None, files |-> <<>>]
        ELSE [ok |-> TRUE,
              ret |-> [Version |-> 0, Entries |-> SelectSeq(pak.Entries, Kept)],
              files |-> r.files]

\* filterPackFile(cmd, pak): the pack file returned and the list runFilter
\* returned; ok = FALSE when check(err) ends the program
FilterPackFileCall(cmd, pak) ==
    LET names == [i \in 1..Len(pak.Entries) |-> pak.Entries[i].Path]
        r == runFilter(cmd, names)
        Kept(e) == e.Path \in FileDict(r.files)
    IN  IF cmd = "" THEN [ok |-> TRUE, ret |-> pak, files |-> <<>>]
        ELSE IF ~r.ok THEN [ok |-> FALSE, ret |-> None, files |-> <<>>]
        ELSE [ok |-> TRUE,
              ret |-> [Version |-> PackFileVersion,
                       Entries |-> SelectSeq(pak.Entries, Kept)],
              files |-> r.files]

\* the pack file Parse returned is filtered
FilterPack ==
    /\ ppc = "parsed" /\ ppak.ok
    /\ \E cmd \in FilterCmds :
         LET f == FilterPackFileCall(cmd, ppak.pak)
         IN  /\ fout' = [cmd |-> cmd, ok |-> f.ok, files |-> f.files]
             /\ pfil' = f.ret
             /\ ppc' = IF f.ok THEN "filtered" ELSE "aborted"
    /\ UNCHANGED <<pin, pbin, ppak, downloaderVars, fb, fb0, fnew, fpc>>

NextPack == NewPack \/ WritePack \/ DamagePack \/ ParsePack \/ FilterPack

SpecPack == InitCalls /\ [][NextPack]_vars

\* the program has a bucket b
NewBucket ==
    /\ fpc = "idle"
    /\ fb' \in FilterBuckets
    /\ fb0' = fb'
    /\ fpc' = "new"
    /\ UNCHANGED <<fout, fnew, downloaderVars, packVars>>

\* b, err = filterBucket(cmd, b)
FilterBucket ==
    /\ fpc = "new"
    /\ \E cmd \in FilterCmds, order \in Orders(fb.Contents) :
         LET f == FilterBucketCall(cmd, fb, order)
         IN  /\ fout' = [cmd |-> cmd, ok |-> f.ok, files |-> f.files]
             /\ fnew' = f.ret
             /\ fb' = f.orig
             /\ fpc' = IF f.ok THEN "filtered" ELSE "aborted"
    /\ UNCHANGED <<fb0, downloaderVars, packVars>>

NextFilter == NewBucket \/ FilterBucket

SpecFilter == InitCalls /\ [][NextFilter]_vars

(***************************************************************************)
(* Claims about Fetch and LoadBucket, checked under SpecCalls.             *)
(***************************************************************************)

\* calls i and i+1 are Fetch(h, attr) twice in succession, for a hash h the
\* cache held no entry for before the first
FetchedTwice(i) ==
    /\ i + 1 <= Len(hist)
    /\ hist[i].op = "Fetch" /\ hist[i + 1].op = "Fetch"
    /\ hist[i].arg = hist[i + 1].arg /\ hist[i].attr = hist[i + 1].attr
    /\ isHash(hist[i].arg)
    /\ ~hist[i].before[hist[i].arg].present

\* the number of GETs the calls i and i+1 issued
GetsOfPair(i) ==
    (IF hist[i].got THEN 1 ELSE 0) + (IF hist[i + 1].got THEN 1 ELSE 0)

C10_TagResolution ==
    \A i \in 1..Len(hist) :
        hist[i].op = "LoadBucket" =>
            /\ isHash(hist[i].arg) => hist[i].tags = 0
            /\ ~isHash(hist[i].arg) => hist[i].tags = 1
            /\ (~isHash(hist[i].arg) /\ hist[i].tagOk /\ ~isHash(hist[i].tagBody))
                   => /\ ~hist[i].res.ok
                      /\ ~hist[i].got
                      /\ hist[i].fetched = <<>>
                      /\ hist[i].after = hist[i].before
            /\ hist[i].got => isHash(hist[i].fetched)
            /\ hist[i].fetched # <<>> => isHash(hist[i].fetched)

C10_Witness ==
    \E i \in 1..Len(hist) :
        /\ hist[i].op = "LoadBucket"
        /\ hist[i].arg = UpperHash
        /\ hist[i].tagOk /\ hist[i].tagBody = HashLf
        /\ ~hist[i].res.ok /\ hist[i].tags = 1

\* call i is a Fetch (its own, or the one LoadBucket makes) whose GET failed
DownloadFailed(i) ==
    /\ hist[i].got
    /\ ~hist[i].res.ok /\ hist[i].res.err = "FetchError"

\* call j is the first call after call i that fetches the hash of call i
NextFetchOf(i, j) ==
    /\ i < j /\ j <= Len(hist)
    /\ hist[j].fetched = hist[i].fetched
    /\ \A k \in (i + 1)..(j - 1) : hist[k].fetched # hist[i].fetched

Tasks == DOMAIN bucket

\* the Fetch calls of task t that have returned an error
FailedAttempts(t) ==
    attempts[t] - (IF tpc[t] \in {"read", "write", "rename"} \/ (tres[t] = Nil /\ attempts[t] > 0)
                   THEN 1 ELSE 0)

\* C2: in FetchAll the task of an entry with Size > 0 calls Fetch at most
\* 1 + RETRY_LIMIT = 4 times; it returns an error only when all four calls
\* failed, returns nil at the first call that succeeds (the fourth
\* included), and its retryCount counts its own failed calls only.
C2_BoundedRetry ==
    op = "FetchAll" =>
        \A t \in Tasks :
            bucket[t].Size > 0 =>
                /\ attempts[t] <= RETRY_LIMIT + 1
                /\ attempts[t] <= 4
                /\ retryCount[t] <= RETRY_LIMIT
                /\ FailedAttempts(t)
                      = retryCount[t] + (IF tres[t].isErr THEN 1 ELSE 0)
                /\ tres[t].isErr => FailedAttempts(t) = 4
                /\ (tres[t] = Nil /\ attempts[t] > 0) => tpc[t] = "done"

C2_Witness ==
    /\ op = "FetchAll"
    /\ \E t \in Tasks, u \in Tasks :
         /\ t # u
         /\ tres[t] = Nil /\ attempts[t] = 4 /\ retryCount[t] = 3
         /\ tpc[t] = "done"
         /\ attempts[u] = 1 /\ retryCount[u] = 0 /\ tres[u] = Nil

\* the tasks of FetchAll whose function returned an error
Exhausted == {t \in Tasks : tres[t].isErr}

FetchAllReturned == op = "FetchAll" /\ mpc = "returned"

\* C3 as stated: FetchAll returns an error iff some task made its four
\* Fetch calls in vain, and then the error of the first task that returned
\* one; it returns nil otherwise.
C3_Original ==
    FetchAllReturned =>
        /\ ret.isErr <=> Exhausted # {}
        /\ \A t \in Exhausted : attempts[t] = RETRY_LIMIT + 1
        /\ ret.isErr => ret = tres[Head(failOrder)]

\* C3 amended: FetchAll returns an error iff some task made its four Fetch
\* calls in vain, and then the error of the failed task whose error the
\* errgroup recorded first, which need not be the first task whose function
\* returned an error; it returns nil otherwise.
C3_FetchAllResult ==
    FetchAllReturned =>
        /\ ret.isErr <=> Exhausted # {}
        /\ \A t \in Exhausted : attempts[t] = RETRY_LIMIT + 1
        /\ ret.isErr => /\ ret = tres[Head(recOrder)]
                        /\ Head(recOrder) \in Exhausted
        /\ ~ret.isErr => ret = Nil
        /\ \A t \in Tasks : tpc[t] = "done"

C3_Witness ==
    /\ FetchAllReturned
    /\ ret.isErr
    /\ Len(failOrder) = 2
    /\ Head(recOrder) # Head(failOrder)
    /\ \E t \in Tasks : tres[t] = Nil

\* task t has issued no GET, written no cache entry, called Fetch not once
\* and returned no error
NoWork(t) ==
    /\ t \notin gotBy
    /\ t \notin wroteBy
    /\ attempts[t] = 0
    /\ ~tres[t].isErr

\* task t skipped its work: it has returned nil and has done nothing
Skipped(t) == NoWork(t) /\ tres[t] = Nil /\ tpc[t] = "done"

\* what a task that passed its check has done once its goroutine is over:
\* the placeholder of an empty file, or Fetch calls up to the first success
\* or the fourth failure
RanToCompletion(t) ==
    tpc[t] \in {"failed", "done"} =>
        \/ bucket[t].Size = 0 /\ t \in wroteBy /\ tres[t] = Nil
        \/ bucket[t].Size > 0 /\ tres[t] = Nil /\ attempts[t] >= 1
        \/ bucket[t].Size > 0 /\ tres[t].isErr /\ attempts[t] = RETRY_LIMIT + 1

\* C4 as stated: a task that makes its cancellation check after some task
\* has returned an unrecoverable error issues no GET, writes no cache entry
\* and returns nil; a task that made it before runs to completion.
C4_Original ==
    op = "FetchAll" =>
        \A t \in Tasks :
            /\ chk[t] \in {"afterFailure", "cancelled"} => NoWork(t)
            /\ chk[t] = "early" => RanToCompletion(t)

\* C4 amended: a task that makes its cancellation check after the errgroup
\* has cancelled the context (which it does when it records a task's error,
\* after that task's function has returned and released its token) issues
\* no GET, writes no cache entry and returns nil; a task that made its check
\* before the cancellation, even after another task's failure, is not
\* interrupted and runs its fetch and its retries to completion.
C4_Cancellation ==
    op = "FetchAll" =>
        \A t \in Tasks :
            /\ chk[t] = "cancelled" => Skipped(t)
            /\ chk[t] \in {"early", "afterFailure"} => RanToCompletion(t)
            /\ ctxDone => (recOrder # <<>> \/ mpc = "returned")
            /\ recOrder # <<>> => ctxDone

C4_Witness ==
    /\ op = "FetchAll" /\ ctxDone
    /\ \E t \in Tasks, u \in Tasks, v \in Tasks :
         /\ chk[t] = "cancelled" /\ tpc[t] = "done"
         /\ chk[u] = "afterFailure" /\ u \in wroteBy /\ retryCount[u] > 0
         /\ tres[v].isErr

\* the content Sync writes for an entry whose Fetch found or made a cache
\* entry holding the raw remote bytes
Content(c) ==
    IF c.Size > 0 THEN decode(RemoteData(dataUrl(c.Hash)), c.Attr) ELSE <<>>

SyncReturned == op = "Sync" /\ mpc = "returned"

SharedHashSynced(p, q) ==
    /\ SyncReturned /\ ret = Nil
    /\ cache0 = ColdCache
    /\ p # q
    /\ bucket[p].Hash = bucket[q].Hash
    /\ bucket[p].Size > 0 /\ bucket[q].Size > 0

\* C6 as stated: a Sync that succeeds on a cold cache issues exactly one GET
\* for a hash two entries share, and writes two files with identical bytes.
C6_Original ==
    \A p \in DOMAIN bucket, q \in DOMAIN bucket :
        SharedHashSynced(p, q) =>
            /\ gets[dataUrl(bucket[p].Hash)] = 1
            /\ files[p].present /\ files[q].present
            /\ files[p].data = files[q].data

\* C6 amended: a Sync that succeeds on a cold cache issues exactly one GET
\* for a hash two entries share, whatever the order of the entries, and
\* writes two files that each hold the transform of the same raw bytes under
\* the entry's attribute: identical bytes when the two entries carry the
\* same attribute.
C6_SharedHash ==
    \A p \in DOMAIN bucket, q \in DOMAIN bucket :
        SharedHashSynced(p, q) =>
            /\ gets[dataUrl(bucket[p].Hash)] = 1
            /\ Cardinality({r \in gotBy : bucket[r].Hash = bucket[p].Hash}) = 1
            /\ files[p] = Entry(Content(bucket[p]))
            /\ files[q] = Entry(Content(bucket[q]))
            /\ bucket[p].Attr = bucket[q].Attr => files[p].data = files[q].data

C6_Witness ==
    \E p \in DOMAIN bucket, q \in DOMAIN bucket :
        /\ SharedHashSynced(p, q)
        /\ bucket[p].Attr = bucket[q].Attr
        /\ q \in gotBy
        /\ files[p].data = files[q].data /\ files[p].data # <<>>

\* C7: when FetchAll returns nil, the cache holds an entry for the hash of
\* every entry of the bucket, the raw remote bytes for an entry with
\* Size > 0 and an empty placeholder for an entry with Size == 0, and no
\* file of a target directory is written.
C7_FetchAllPopulates ==
    (FetchAllReturned /\ ret = Nil) =>
        /\ \A p \in DOMAIN bucket :
              /\ cache[bucket[p].Hash].present
              /\ bucket[p].Size > 0 =>
                    cache[bucket[p].Hash].data = RemoteData(dataUrl(bucket[p].Hash))
              /\ bucket[p].Size = 0 => cache[bucket[p].Hash].data = <<>>
        /\ \A p \in Paths : files[p] = NoFile

\* the answer of a HEAD request is the status 200
Is200(a) == ~a.err /\ a.status = 200

ExistsAllReturned == op = "ExistsAll" /\ mpc = "returned"

\* C8: when ExistsAll returns, the result map has exactly the paths of the
\* bucket as keys (none for an empty bucket, all of them for a bucket larger
\* than the channel), the value of a path is true iff the HEAD request for
\* its entry answered with status 200, and the error returned is nil.
C8_ExistsAllResult ==
    /\ ExistsAllReturned =>
          /\ DOMAIN result = DOMAIN bucket
          /\ DOMAIN heads = DOMAIN bucket
          /\ \A p \in DOMAIN bucket : result[p] = Is200(heads[p])
          /\ ret = Nil
    /\ op = "ExistsAll" =>
          /\ ~ret.isErr
          /\ DOMAIN result \subseteq DOMAIN heads
          /\ DOMAIN heads \subseteq DOMAIN bucket
          /\ \A p \in DOMAIN result : result[p] = Is200(heads[p])

C8_Witness ==
    /\ ExistsAllReturned
    /\ Cardinality(DOMAIN bucket) > ChanCap
    /\ Cardinality(DOMAIN bucket) > NumWorkers
    /\ \E p \in DOMAIN result, q \in DOMAIN result, r \in DOMAIN result :
         /\ result[p] /\ ~result[q] /\ ~result[r]
         /\ heads[q].err /\ heads[r].status = 404

\* C9: Sync calls Fetch at most once per entry; when the fetch, the
\* directory creation or the file write of an entry fails, Sync returns that
\* entry's error at once: no entry it had not yet visited is fetched or
\* written, the failed entry has no file, and the file of every entry
\* visited before holds its full content.
C9_SyncFailFast ==
    op = "Sync" =>
        /\ \A p \in DOMAIN bucket : attempts[p] <= 1
        /\ failedAt # None <=> ret.isErr
        /\ ret.isErr => /\ mpc = "returned"
                        /\ ret.by = failedAt
                        /\ failedAt \in todo
        /\ \A p \in todo :
              /\ files[p] = NoFile
              /\ p # failedAt => (attempts[p] = 0 /\ p \notin gotBy)
        /\ \A p \in DOMAIN bucket \ todo : files[p] = Entry(Content(bucket[p]))
        /\ SyncReturned => (ret.isErr \/ todo = {})

C9_Witness ==
    /\ SyncReturned /\ ret.isErr
    /\ Cardinality(todo) = 2
    /\ \E p \in DOMAIN bucket \ todo : files[p].data # <<>> /\ p \in gotBy
    /\ failedAt \in gotBy

(***************************************************************************)
(* Claims about pack files, checked under SpecPack.                        *)
(***************************************************************************)

\* Parse has read the stream Write produced, as Write produced it
ParsedWhole == ppc \in {"parsed", "filtered", "aborted"}

\* C11: parsing the stream that Write produced for a sequence of entries
\* succeeds and yields a sequence of the same length whose entries equal the
\* input entries field for field, in the original order.
C11_PackRoundTrip ==
    ParsedWhole =>
        /\ ppak.ok
        /\ Len(ppak.pak.Entries) = Len(pin)
        /\ \A i \in 1..Len(pin) :
              /\ ppak.pak.Entries[i].Path = pin[i].Path
              /\ ppak.pak.Entries[i].Hash = pin[i].Hash
              /\ ppak.pak.Entries[i].Pos = pin[i].Pos
              /\ ppak.pak.Entries[i].Size = pin[i].Size

C11_Witness ==
    /\ ppc = "parsed" /\ ppak.ok
    /\ Len(pin) = 2
    /\ pin[1].Hash = pin[2].Hash /\ pin[1].Path # pin[2].Path
    /\ pin[1].Size = 0 /\ pin[2].Pos # pin[2].Size
    /\ ppak.pak.Entries = pin

\* the indices of the entries of `es` whose path is in the list `names`
KeptIndices(es, names) == {i \in 1..Len(es) : es[i].Path \in FileDict(names)}

\* the k-th smallest element of the set of numbers I
Nth(I, k) == CHOOSE i \in I : Cardinality({j \in I : j <= i}) = k

C12_FilterBucket ==
    (fpc = "filtered" /\ fout.cmd # "") =>
        /\ DOMAIN fnew.Contents
              = {p \in DOMAIN fb0.Contents : p \in FileDict(fout.files)}
        /\ \A p \in DOMAIN fnew.Contents : fnew.Contents[p] = fb0.Contents[p]
        /\ fnew.Tag = fb0.Tag
        /\ fb = fb0
        /\ fout.cmd = "cat" =>
              /\ DOMAIN fnew.Contents = DOMAIN fb0.Contents
              /\ \A p \in DOMAIN fb0.Contents :
                    /\ fnew.Contents[p].Hash = fb0.Contents[p].Hash
                    /\ fnew.Contents[p].Size = fb0.Contents[p].Size
              /\ fnew.Tag = fb0.Tag

C12_Witness ==
    /\ fpc = "filtered" /\ fout.cmd = "cat"
    /\ Cardinality(DOMAIN fb0.Contents) = 3
    /\ fb0.Tag = TagV1
    /\ fout.files[1] = PathBc
    /\ fnew.Contents = fb0.Contents

(***************************************************************************)
(* Further claims about the bulk calls, checked under Spec.                *)
(***************************************************************************)

\* the tasks of FetchAll that hold a token of `limit`
Holding == {t \in Tasks : tpc[t] \notin {"queued", "failed", "done"}}

\* the tasks of FetchAll inside a call of Fetch
InFetch == {t \in Tasks : tpc[t] \in {"fetch", "read", "write", "rename"}}

\* C13: in every state of a FetchAll run at most LimitCap tasks (8 in the
\* source) are between acquiring and releasing the semaphore, so at most
\* that many Fetch calls are in progress; the tokens in the channel are
\* exactly those of the tasks at work, and a task that has left its
\* function, with nil, with an error, as a cancelled no-op or after the
\* placeholder of an empty entry, holds none.
C13_BoundedParallelism ==
    op = "FetchAll" =>
        /\ limit <= LimitCap
        /\ Cardinality(Holding) = limit
        /\ Cardinality(InFetch) <= LimitCap
        /\ \A t \in Tasks : tres[t] # Pending => t \notin Holding
        /\ mpc = "returned" => limit = 0

C13_Witness ==
    /\ op = "FetchAll"
    /\ limit = LimitCap
    /\ Cardinality(InFetch) = LimitCap
    /\ \E u \in Tasks : tpc[u] = "failed" /\ tres[u].isErr

\* C14: once the cache holds an entry for a hash, no step of a bulk call
\* removes the entry or changes its contents, the step of a FetchAll task
\* for an entry with Size == 0 whose hash is cached included.
C14_CacheNeverInvalidated ==
    [][\A h \in Hashes : cache[h].present => cache'[h] = cache[h]]_vars

\* the FetchAll call found the cache cold for the hash h and every entry
\* that names h has Size > 0: the tasks that touch the cache entry of h are
\* concurrent calls of Fetch(h) (os.Create for an entry with Size == 0, the
\* subject of C14, is no call of Fetch)
FetchedConcurrently(h) ==
    /\ op = "FetchAll"
    /\ ~cache0[h].present
    /\ \A t \in Tasks : bucket[t].Hash = h => bucket[t].Size > 0

\* C15: whatever the interleaving of the FetchAll tasks that call Fetch for
\* one hash on a cold cache, the cache entry of the hash is absent or holds
\* the full raw remote bytes, never a part of them; every call that succeeds
\* returns the transform of the full remote bytes under its attribute; and
\* once a call has succeeded the cache entry holds exactly the raw bytes.
C15_ConcurrentFetch ==
    \A h \in Hashes :
        FetchedConcurrently(h) =>
            /\ cache[h].present => cache[h] = Entry(RemoteData(dataUrl(h)))
            /\ \A t \in Tasks :
                  bucket[t].Hash = h =>
                      /\ fdata[t] # NotFetched =>
                            fdata[t] = Ok(decode(RemoteData(dataUrl(h)),
                                                 bucket[t].Attr))
                      /\ (tpc[t] = "done" /\ tres[t] = Nil /\ attempts[t] > 0) =>
                            /\ fdata[t] # NotFetched
                            /\ cache[h] = Entry(RemoteData(dataUrl(h)))

C15_Witness ==
    /\ FetchAllReturned
    /\ \E t \in Tasks, u \in Tasks, v \in Tasks :
         /\ t # u /\ u # v /\ t # v
         /\ bucket[t].Hash = bucket[u].Hash /\ bucket[u].Hash = bucket[v].Hash
         /\ FetchedConcurrently(bucket[t].Hash)
         /\ {t, u} \subseteq gotBy /\ {t, u} \subseteq wroteBy
         /\ v \notin gotBy /\ fdata[v] # NotFetched
         /\ bucket[t].Attr # bucket[u].Attr

\* C16: FetchAll returns only after every task it started has finished;
\* when it has returned, with nil or with an error, no task holds a token
\* or has an atomic write under way, and no later step issues a GET or
\* writes a cache entry.
C16_WaitsForTasks ==
    /\ [](FetchAllReturned =>
             /\ \A t \in Tasks : tpc[t] = "done" /\ tmp[t] = NoFile
             /\ limit = 0)
    /\ [][FetchAllReturned =>
             /\ gets' = gets /\ gotBy' = gotBy
             /\ cache' = cache /\ wroteBy' = wroteBy
             /\ limit' = limit /\ tpc' = tpc]_vars

C16_Witness ==
    /\ FetchAllReturned /\ ret.isErr /\ limit = 0
    /\ \E t \in Tasks, u \in Tasks :
         /\ recOrder # <<>> /\ Head(recOrder) = u
         /\ chk[t] = "afterFailure" /\ t \in gotBy /\ t \in wroteBy
         /\ tpc[t] = "done"

\* the workers of ExistsAll between mutex.Lock() and mutex.Unlock()
InCritical == {w \in Workers : wpc[w] \in {"write", "unlock"}}

\* C17: in every state of an ExistsAll run the workers between Lock and
\* Unlock are exactly the holders of the mutex and there is at most one, so
\* at most one worker writes the result map at a time; a worker that waits
\* for the channel, performs its HEAD request or waits for the mutex holds
\* no lock; a worker that is back at the channel after the error path or
\* the success path, or has exited, has released the mutex, and none holds
\* it when ExistsAll returns.
C17_NoLockAcrossHead ==
    op = "ExistsAll" =>
        /\ InCritical = mutex
        /\ Cardinality(mutex) <= 1
        /\ \A w \in Workers :
              wpc[w] \in {"recv", "head", "lock", "exit"} => w \notin mutex
        /\ mpc = "returned" => mutex = {}

C17_Witness ==
    /\ op = "ExistsAll"
    /\ \E w \in Workers, v \in Workers :
         /\ mutex = {w} /\ wpc[w] = "write" /\ wres[w].err
         /\ wpc[v] = "lock" /\ ~wres[v].err
         /\ DOMAIN result # {}

(***************************************************************************)
(* Termination of ExistsAll, checked under SpecExists.                     *)
(***************************************************************************)

\* worker w of the ExistsAll call is at position pc
WorkerAt(w, pc) == w \in DOMAIN wpc /\ wpc[w] = pc

\* the HEAD request of worker w failed
HeadFailed(w) == w \in DOMAIN wres /\ wres[w].err

\* C18: an ExistsAll call, for a bucket with no entry, with fewer entries
\* than the channel holds or with more, eventually returns, and then every
\* entry has been sent, the channel is closed and empty and every worker
\* has exited; a worker whose HEAD request failed records the answer and
\* comes back to the channel for the next entry.
C18_ExistsAllTerminates ==
    /\ (op = "ExistsAll") ~> ExistsAllReturned
    /\ [](ExistsAllReturned =>
             /\ todo = {} /\ closed /\ ch = <<>>
             /\ \A w \in Workers : WorkerAt(w, "exit"))
    /\ \A w \in Workers :
          (WorkerAt(w, "lock") /\ HeadFailed(w)) ~> WorkerAt(w, "recv")

C18_Witness ==
    /\ ExistsAllReturned
    /\ Cardinality(DOMAIN bucket) > ChanCap
    /\ closed /\ ch = <<>>
    /\ \A w \in Workers : wpc[w] = "exit"
    /\ \A p \in DOMAIN bucket : heads[p].err /\ ~result[p]

====
